---- MODULE Spec2Model ----
(***************************************************************************)
(* A model of GoL.py: Conway's Game of Life on a sparse set of cells whose *)
(* coordinates are confined to the signed integer range                    *)
(* [INT64_MIN, INT64_MAX].                                                 *)
(*                                                                         *)
(* Objects are modelled with their identity.  A Cell object is a record    *)
(* [owner, point]: owner 0 is the caller (or the file reader), owner g is  *)
(* the GameOfLife instance g whose createNewCells built the cell.  Its     *)
(* mutable field isNextGenAlive lives in the heap isNextGenAlive.  A set   *)
(* object is a reference into the heap setObj.                             *)
(*                                                                         *)
(* Python integers are unbounded, so the program's arithmetic never wraps: *)
(* the only place the magnitude of a coordinate matters is the comparison  *)
(* with INT64_MAX and INT64_MIN.  The model keeps these comparisons and    *)
(* scales the word width from 64 to CoordBits.                             *)
(***************************************************************************)
EXTENDS Integers, Sequences, FiniteSets, TLC

\* ------------------------------------------------------------------ bounds
CoordBits == 5
MaxGen == 2
MaxDirect == 1
MaxLive == 3
MaxLines == 3

\* --------------------------------------------------------------- constants
INT64_MAX == (2 ^ (CoordBits - 1)) - 1
INT64_MIN == -(2 ^ (CoordBits - 1))

\* The callers' set object and the set object owned by instance g.
CallerRef == 0
OwnRef(g) == g

Restrict(f, D) == [x \in D |-> f[x]]

\* Sequencing: F applied to the value of v.
Then(v, F(_)) == CHOOSE r \in {F(a) : a \in {v}} : TRUE

\* ------------------------------------------------------------------- Point
\* Mutant: the extreme values are refused.
InRangeExclusive(x, y) ==
    ~(x >= INT64_MAX \/ x <= INT64_MIN \/ y >= INT64_MAX \/ y <= INT64_MIN)

\* Point.__init__, lines 10-11: the coordinates pass the test.
InRange(x, y) ==
    ~(x > INT64_MAX \/ x < INT64_MIN \/ y > INT64_MAX \/ y < INT64_MIN)

\* Point.__init__: the point, or the exception when a coordinate is out of range
\* (the empty tuple stands for the exception)
Point(x, y) == IF InRange(x, y) THEN <<x, y>> ELSE <<>>

\* Point.__eq__ for two Points.
PointEq(p, q) == p[1] = q[1] /\ p[2] = q[2]

\* Point.__eq__ for a Point and a Cell, lines 17-18: a Cell is no instance of
\* Point, so the answer is False whatever the coordinates.
PointEqCell(p, c) == FALSE

\* Point.__hash__: the hash of the tuple (x, y), which goes by value.
PointHash(p) == <<p[1], p[2]>>

\* -------------------------------------------------------------------- Cell
Cell(o, p) == [owner |-> o, point |-> p]

\* Cell.__eq__(c, other) where other is a Point.
CellEqPoint(c, p) == PointEq(c.point, p)

\* Cell.__eq__(c, other) where other is a Cell.
CellEqCell(c, d) == PointEq(c.point, d.point)

\* Cell.__hash__: the hash of the point.
CellHash(c) == PointHash(c.point)

\* `point in cells` for a set of Cells: the stored key is the left operand.
ContainsPoint(cells, p) == \E c \in cells : CellEqPoint(c, p)

\* `cell in cells` for a set of Cells.
ContainsCell(cells, d) == \E c \in cells : CellEqCell(c, d)

\* set.add: an element equal to one already stored is not added.
SetAdd(cells, d) == IF ContainsCell(cells, d) THEN cells ELSE cells \cup {d}

\* set -= other.
SetMinus(cells, other) == {c \in cells : ~ContainsCell(other, c)}

\* The coordinates of a set of Cells.
Points(cells) == {c.point : c \in cells}

\* -------------------------------------------------------------------- text
\* A string is a sequence of characters.
Digits == <<"0", "1", "2", "3", "4", "5", "6", "7", "8", "9">>
DigitChars == {Digits[i] : i \in 1..Len(Digits)}
DigitValue(ch) == (CHOOSE i \in 1..Len(Digits) : Digits[i] = ch) - 1
Whitespace == {" ", "\n", "\t"}

\* str(n) for a natural number.
RECURSIVE StrNat(_)
StrNat(n) ==
    IF n < 10
    THEN <<Digits[n + 1]>>
    ELSE Then(StrNat(n \div 10), LAMBDA front : Append(front, Digits[(n % 10) + 1]))

\* str(n) for an integer.
Str(n) == IF n < 0 THEN <<"-">> \o StrNat(-n) ELSE StrNat(n)

\* s.strip(): without its leading and trailing whitespace.
Strip(s) ==
    LET inked == {i \in 1..Len(s) : s[i] \notin Whitespace}
    IN  IF inked = {}
        THEN <<>>
        ELSE SubSeq(s, CHOOSE i \in inked : \A j \in inked : i <= j,
                       CHOOSE i \in inked : \A j \in inked : j <= i)

\* The pieces of s between the occurrences of the character sep, each piece
\* with its closing sep when keep is set (and then no empty last piece).
Pieces(s, sep, keep) ==
    LET cuts == {i \in 1..Len(s) : s[i] = sep}
        starts == {1} \cup {i + 1 : i \in cuts}
        EndOf(a) == IF \E i \in cuts : i >= a
                    THEN (CHOOSE i \in cuts : i >= a /\ \A j \in cuts : j >= a => i <= j)
                            - (IF keep THEN 0 ELSE 1)
                    ELSE Len(s)
        kept == IF keep THEN {a \in starts : a <= Len(s)} ELSE starts
        Nth(k) == CHOOSE a \in kept : Cardinality({b \in kept : b < a}) = k - 1
    IN  [k \in 1..Cardinality(kept) |-> SubSeq(s, Nth(k), EndOf(Nth(k)))]

\* f.readlines(): the lines of a text, each with its newline.
ReadLines(text) == Pieces(text, "\n", TRUE)

\* s.split(" ").
SplitSpace(s) == Pieces(s, " ", FALSE)

\* The value of a sequence of digits.
RECURSIVE DigitsValue(_)
DigitsValue(ds) ==
    IF ds = <<>>
    THEN 0
    ELSE Then(DigitsValue(SubSeq(ds, 1, Len(ds) - 1)),
              LAMBDA front : 10 * front + DigitValue(ds[Len(ds)]))

\* int(s): surrounding whitespace, an optional sign, one or more digits;
\* anything else is a ValueError (ok = FALSE).
ParseInt(s) ==
    LET t == Strip(s)
        signed == t # <<>> /\ t[1] \in {"-", "+"}
        ds == IF signed THEN Tail(t) ELSE t
        ok == ds # <<>> /\ \A i \in 1..Len(ds) : ds[i] \in DigitChars
    IN  [ok |-> ok,
         value |-> IF ~ok THEN 0
                   ELSE IF signed /\ t[1] = "-" THEN -DigitsValue(ds) ELSE DigitsValue(ds)]

\* ------------------------------------------------------------------- state
VARIABLES
    setObj,                  \* heap of set objects: reference -> set of Cells
    isNextGenAlive,          \* heap of Cell objects: Cell -> "None", "True", "False"
    liveCells,               \* instance -> reference of its set of live Cells
    deadCellNeighborCounts,  \* instance -> (Point -> number of live neighbors)
    numOfGenerations,        \* instance -> generations to run
    currentGeneration,       \* instance -> generations run so far
    pc,                      \* instance -> the statement it is at
    ret,                     \* instance -> where runNextGeneration returns to
    pending,                 \* instance -> Cells the loop of calculateNextGen has yet to visit
    pattern,                 \* the coordinates the caller built its set of Cells from
    numOfGens,               \* the generation count handed to the constructor
    lastCall,                \* the caller's latest call on the instance
    directSteps,             \* number of runNextGeneration calls made by the caller itself
    cmdPc,                   \* the statement runGameOfLife is at ("api": no command runs)
    args,                    \* getCommandLineArgs: numberOfGens and solutionFilename
    lines,                   \* readLiveCellFile: the lines of the input file
    resultFile,              \* the result file: <<>> when absent, else <<its text>>
    verdict,                 \* the comparison with the solution file
    error                    \* the error that aborted the command

vars == <<setObj, isNextGenAlive, liveCells, deadCellNeighborCounts, numOfGenerations,
          currentGeneration, pc, ret, pending, pattern, numOfGens, lastCall, directSteps,
          cmdPc, args, lines, resultFile, verdict, error>>

simVars == <<liveCells, deadCellNeighborCounts, numOfGenerations, currentGeneration>>
callerVars == <<pattern, numOfGens, lastCall, directSteps>>
cmdVars == <<cmdPc, args, lines, resultFile, verdict, error>>

EmptyTally == [p \in {} |-> 0]
NoFields == [g \in {} |-> 0]

\* self.liveCells of instance g, dereferenced.
Live(g) == setObj[liveCells[g]]

\* Cell objects no set refers to any more are unreachable and leave the heap.
Collect(marks, sets) == Restrict(marks, DOMAIN marks \cap UNION {sets[r] : r \in DOMAIN sets})

\* -------------------------------------------------------------- GameOfLife
\* Mutant: a generation count of 0 is rejected too.
InitRejectsZero(n) == n <= 0

\* __init__, line 53: the generation count is rejected.
InitRejects(n) == n < 0

\* Mutant: the instance starts from an empty set instead of a copy.
InitLiveCellsEmpty(g, sets) == sets @@ (OwnRef(g) :> {})

\* __init__, line 57: the set object the instance works on.
InitLiveCells(g, sets) == sets @@ (OwnRef(g) :> sets[CallerRef])

\* Mutant: the instance works on the caller's set object, without a copy.
InitLiveRefOfCaller(g) == CallerRef

\* __init__, line 57: self.liveCells refers to the copy.
InitLiveRef(g) == OwnRef(g)

\* __init__, lines 57-61: the fields of the new instance g.
NewFields(g, n) ==
    /\ setObj' = InitLiveCells(g, setObj)
    /\ liveCells' = liveCells @@ (g :> InitLiveRef(g))
    /\ deadCellNeighborCounts' = deadCellNeighborCounts @@ (g :> EmptyTally)
    /\ numOfGenerations' = numOfGenerations @@ (g :> n)
    /\ currentGeneration' = currentGeneration @@ (g :> 0)

\* The caller constructs GameOfLife(initialLiveCells, numOfGens).
GameOfLife__init__(g) ==
    /\ cmdPc = "api"
    /\ pc[g] = "new"
    /\ IF InitRejects(numOfGens)
       THEN /\ pc' = [pc EXCEPT ![g] = "raised"]
            /\ UNCHANGED <<setObj, simVars>>
       ELSE /\ NewFields(g, numOfGens)
            /\ pc' = [pc EXCEPT ![g] = "idle"]
    /\ UNCHANGED <<isNextGenAlive, ret, pending, callerVars>>
    /\ UNCHANGED cmdVars

\* getLiveNeighbors, lines 88-97.
directions == << <<1, 0>>, <<1, 1>>, <<0, 1>>, <<-1, 1>>,
                 <<-1, 0>>, <<-1, -1>>, <<0, -1>>, <<1, -1>> >>

\* Mutant: only x is tested against the range.
NeighborInRangeXOnly(x, y) == x <= INT64_MAX /\ x >= INT64_MIN

\* getLiveNeighbors, lines 104-105.
NeighborInRange(x, y) ==
    x <= INT64_MAX /\ x >= INT64_MIN /\ y <= INT64_MAX /\ y >= INT64_MIN

\* Mutant: a tallied coordinate is set to 1 again instead of incremented.
TallySetsOne(counts, neighbor) ==
    IF neighbor \in DOMAIN counts
    THEN [counts EXCEPT ![neighbor] = 1]
    ELSE counts @@ (neighbor :> 1)

\* getLiveNeighbors, lines 112-115.
Tally(counts, neighbor) ==
    IF neighbor \in DOMAIN counts
    THEN [counts EXCEPT ![neighbor] = @ + 1]
    ELSE counts @@ (neighbor :> 1)

\* Mutant: a live neighbor is tallied as well as counted.
VisitDirectionTalliesLive(cells, point, d, acc) ==
    LET x == point[1] + d[1]
        y == point[2] + d[2]
    IN  IF acc.raised \/ ~NeighborInRange(x, y)
        THEN acc
        ELSE IF Point(x, y) = <<>>
        THEN [acc EXCEPT !.raised = TRUE]
        ELSE IF ContainsPoint(cells, Point(x, y))
        THEN [acc EXCEPT !.liveCount = @ + 1, !.counts = Tally(@, Point(x, y))]
        ELSE [acc EXCEPT !.counts = Tally(@, Point(x, y))]

\* getLiveNeighbors, lines 102-115: the loop body for direction d.
\* acc = [liveCount, counts, raised].
VisitDirection(cells, point, d, acc) ==
    LET x == point[1] + d[1]
        y == point[2] + d[2]
    IN  IF acc.raised \/ ~NeighborInRange(x, y)
        THEN acc
        ELSE IF Point(x, y) = <<>>
        THEN [acc EXCEPT !.raised = TRUE]
        ELSE IF ContainsPoint(cells, Point(x, y))
        THEN [acc EXCEPT !.liveCount = @ + 1]
        ELSE [acc EXCEPT !.counts = Tally(@, Point(x, y))]

RECURSIVE VisitDirectionsFrom(_, _, _, _)
VisitDirectionsFrom(i, cells, point, acc) ==
    IF i > Len(directions)
    THEN acc
    ELSE Then(VisitDirection(cells, point, directions[i], acc),
              LAMBDA next : VisitDirectionsFrom(i + 1, cells, point, next))

\* Mutant: neighbors already marked dead in this generation are not counted
\* as live.
getLiveNeighborsInPlace(g, point) ==
    VisitDirectionsFrom(1, {c \in Live(g) : isNextGenAlive[c] # "False"}, point,
        [liveCount |-> 0, counts |-> deadCellNeighborCounts[g], raised |-> FALSE])

\* getLiveNeighbors, lines 86-117, for the cell at point.
getLiveNeighbors(g, point) ==
    VisitDirectionsFrom(1, Live(g), point,
        [liveCount |-> 0, counts |-> deadCellNeighborCounts[g], raised |-> FALSE])

\* Mutant: a live cell with 3 live neighbors dies.
SurvivesOnly2(numLiveNeighbors) == numLiveNeighbors \in {2}

\* calculateNextGen, line 84.
Survives(numLiveNeighbors) == numLiveNeighbors \in {2, 3}

PyBool(b) == IF b THEN "True" ELSE "False"

\* Entry of runNextGeneration: the loop of calculateNextGen starts.
AfterVisit(rest) == IF rest = {} THEN "removeDeadCells" ELSE "calculateNextGen"

StartGeneration(g, returnTo) ==
    /\ pending' = [pending EXCEPT ![g] = Live(g)]
    /\ pc' = [pc EXCEPT ![g] = AfterVisit(Live(g))]
    /\ ret' = [ret EXCEPT ![g] = returnTo]

\* calculateNextGen: one iteration of the loop, on any Cell not yet visited.
calculateNextGen(g) ==
    /\ pc[g] = "calculateNextGen"
    /\ \E lc \in pending[g] :
         LET r == getLiveNeighbors(g, lc.point)
         IN  /\ deadCellNeighborCounts' = [deadCellNeighborCounts EXCEPT ![g] = r.counts]
             /\ IF r.raised
                THEN /\ pc' = [pc EXCEPT ![g] = "raised"]
                     /\ UNCHANGED <<isNextGenAlive, pending>>
                ELSE /\ isNextGenAlive' =
                          [isNextGenAlive EXCEPT ![lc] = PyBool(Survives(r.liveCount))]
                     /\ pending' = [pending EXCEPT ![g] = @ \ {lc}]
                     /\ pc' = [pc EXCEPT ![g] = AfterVisit(pending[g] \ {lc})]
    /\ UNCHANGED <<setObj, liveCells, numOfGenerations, currentGeneration, ret, callerVars>>
    /\ UNCHANGED cmdVars

\* removeDeadCells, lines 127-130.
DeadCells(cells, marks) == {c \in cells : marks[c] = "False"}

removeDeadCells(g) ==
    /\ pc[g] = "removeDeadCells"
    /\ setObj' = [setObj EXCEPT
                    ![liveCells[g]] = SetMinus(@, DeadCells(Live(g), isNextGenAlive))]
    /\ isNextGenAlive' = Collect(isNextGenAlive, setObj')
    /\ pc' = [pc EXCEPT ![g] = "createNewCells"]
    /\ UNCHANGED <<simVars, ret, pending, callerVars>>
    /\ UNCHANGED cmdVars

\* Mutant: a dead cell with more than 3 live neighbors is born too.
IsBornAtLeast3(v) == v >= 3

\* createNewCells, line 121.
IsBorn(v) == v = 3

\* Mutant: a Cell is born with the marker of a dead Cell.
BornMarkerFalse == "False"

\* createNewCells, line 122: Cell(k, True).
BornMarker == "True"

\* createNewCells, lines 120-122: the Cells that are added to cells.
NewCells(g, cells, counts) ==
    {c \in {Cell(g, k) : k \in {q \in DOMAIN counts : IsBorn(counts[q])}} :
        SetAdd(cells, c) # cells}

createNewCells(g) ==
    /\ pc[g] = "createNewCells"
    /\ LET born == NewCells(g, Live(g), deadCellNeighborCounts[g])
       IN  /\ setObj' = [setObj EXCEPT ![liveCells[g]] = @ \cup born]
           /\ isNextGenAlive' = [c \in born |-> BornMarker] @@ isNextGenAlive
    /\ deadCellNeighborCounts' = [deadCellNeighborCounts EXCEPT ![g] = EmptyTally]
    /\ pc' = [pc EXCEPT ![g] = "resetNextGen"]
    /\ UNCHANGED <<liveCells, numOfGenerations, currentGeneration, ret, pending, callerVars>>
    /\ UNCHANGED cmdVars

\* Mutant: the markers are left as the step computed them.
resetNextGenKeepsMarkers(g) ==
    /\ pc[g] = "resetNextGen"
    /\ currentGeneration' = [currentGeneration EXCEPT ![g] = @ + 1]
    /\ pc' = [pc EXCEPT ![g] = ret[g]]
    /\ UNCHANGED <<setObj, isNextGenAlive, liveCells, deadCellNeighborCounts,
                   numOfGenerations, ret, pending, callerVars>>
    /\ UNCHANGED cmdVars

\* resetNextGen, then line 78 of runNextGeneration and the return to the caller.
resetNextGen(g) ==
    /\ pc[g] = "resetNextGen"
    /\ isNextGenAlive' = [c \in DOMAIN isNextGenAlive |->
                            IF c \in Live(g) THEN "None" ELSE isNextGenAlive[c]]
    /\ currentGeneration' = [currentGeneration EXCEPT ![g] = @ + 1]
    /\ pc' = [pc EXCEPT ![g] = ret[g]]
    /\ UNCHANGED <<setObj, liveCells, deadCellNeighborCounts, numOfGenerations,
                   ret, pending, callerVars>>
    /\ UNCHANGED cmdVars

\* Mutant: the loop runs one generation too many.
LoopTestInclusive(current, total) == current <= total

\* runGenerations, line 70.
LoopTest(current, total) == current < total

\* runGenerations: the loop test, and the call of runNextGeneration.
runGenerations(g) ==
    /\ pc[g] = "runGenerations"
    /\ IF LoopTest(currentGeneration[g], numOfGenerations[g])
       THEN StartGeneration(g, "runGenerations")
       ELSE /\ pc' = [pc EXCEPT ![g] = "idle"]
            /\ UNCHANGED <<ret, pending>>
    /\ UNCHANGED <<setObj, isNextGenAlive, simVars, callerVars>>
    /\ UNCHANGED cmdVars

\* ------------------------------------------------------------- the caller
\* The caller calls game.runGenerations().
CallRunGenerations(g) ==
    /\ cmdPc = "api"
    /\ pc[g] = "idle"
    /\ pc' = [pc EXCEPT ![g] = "runGenerations"]
    /\ lastCall' = "runGenerations"
    /\ UNCHANGED <<setObj, isNextGenAlive, simVars, ret, pending, pattern, numOfGens, directSteps>>
    /\ UNCHANGED cmdVars

\* The caller calls game.runNextGeneration() itself; the method has no guard.
CallRunNextGeneration(g) ==
    /\ cmdPc = "api"
    /\ pc[g] = "idle"
    /\ directSteps < MaxDirect
    /\ StartGeneration(g, "idle")
    /\ lastCall' = "runNextGeneration"
    /\ directSteps' = directSteps + 1
    /\ UNCHANGED <<setObj, isNextGenAlive, simVars, pattern, numOfGens>>
    /\ UNCHANGED cmdVars

\* ----------------------------------------------------------- runGameOfLife
\* The set object and the Cells that readLiveCellFile builds for the solution.
SolutionRef == 3

\* readLiveCellFile, line 164.
headerLine == <<"#", "L", "i", "f", "e", " ", "1", ".", "0", "6">>

\* readLiveCellFile, line 170.
HeaderOk(first) == Strip(first) = headerLine

\* readLiveCellFile, lines 175-176, for one line: the Cell to add, or the error
\* that int (ValueError), coords[1] (IndexError) or Point raises.
ParseLine(owner, line) ==
    LET coords == SplitSpace(line)
    IN  IF ~ParseInt(coords[1]).ok \/ Len(coords) < 2 \/ ~ParseInt(coords[2]).ok
        THEN [error |-> "FormatError", cell |-> <<>>]
        ELSE IF Point(ParseInt(coords[1]).value, ParseInt(coords[2]).value) = <<>>
        THEN [error |-> "RangeError", cell |-> <<>>]
        ELSE [error |-> "none",
              cell |-> <<Cell(owner, Point(ParseInt(coords[1]).value,
                                           ParseInt(coords[2]).value))>>]

\* readLiveCellFile, lines 173-177: the loop from line i on.
RECURSIVE ReadFrom(_, _, _, _)
ReadFrom(i, owner, fileLines, cells) ==
    IF i > Len(fileLines)
    THEN [error |-> "none", cells |-> cells]
    ELSE Then(ParseLine(owner, fileLines[i]),
              LAMBDA parsed :
                 IF parsed.error # "none"
                 THEN [error |-> parsed.error, cells |-> {}]
                 ELSE Then(SetAdd(cells, parsed.cell[1]),
                           LAMBDA added : ReadFrom(i + 1, owner, fileLines, added)))

\* readLiveCellFile on the lines readlines returned: an empty file fails at
\* lines[0] (IndexError), a wrong header at line 171.
readLiveCellFile(owner, fileLines) ==
    IF fileLines = <<>> \/ ~HeaderOk(fileLines[1])
    THEN [error |-> "FormatError", cells |-> {}]
    ELSE ReadFrom(2, owner, fileLines, {})

\* Mutant: the line of a live cell is not ended.
CellLineNoNewline(lc) == Str(lc.point[1]) \o <<" ">> \o Str(lc.point[2])

\* __str__, line 66: the line of one live cell.
CellLine(lc) == Str(lc.point[1]) \o <<" ">> \o Str(lc.point[2]) \o <<"\n">>

\* __str__, lines 64-67, iterating over the live cells in the given order.
RECURSIVE StrFrom(_, _, _)
StrFrom(i, order, lcStr) ==
    IF i > Len(order)
    THEN lcStr
    ELSE Then(lcStr \o CellLine(order[i]), LAMBDA longer : StrFrom(i + 1, order, longer))

GameOfLife__str__(order) == StrFrom(1, order, headerLine \o <<"\n">>)

\* The orders a set may be iterated in.
Orders(cells) ==
    {order \in [1..Cardinality(cells) -> cells] :
        \A i, j \in 1..Cardinality(cells) : order[i] = order[j] => i = j}

\* solution == game.liveCells for two sets of Cells.
SetEq(a, b) == Cardinality(a) = Cardinality(b) /\ \A c \in a : ContainsCell(b, c)

\* runGameOfLife, line 213.
DefaultGens == 10

\* runGameOfLife, lines 212-213.
Defaulted(numberOfGens) ==
    IF numberOfGens = <<>> \/ numberOfGens[1] = 0 THEN DefaultGens ELSE numberOfGens[1]

\* Line 207: liveCells = readLiveCellFile(filename).
CmdReadInput ==
    /\ cmdPc = "readLiveCellFile"
    /\ LET r == readLiveCellFile(CallerRef, lines)
       IN  IF r.error # "none"
           THEN /\ cmdPc' = "aborted"
                /\ error' = r.error
                /\ UNCHANGED <<setObj, isNextGenAlive, pattern>>
           ELSE /\ cmdPc' = "construct"
                /\ setObj' = (CallerRef :> r.cells)
                /\ isNextGenAlive' = [c \in r.cells |-> "None"]
                /\ pattern' = Points(r.cells)
                /\ UNCHANGED error
    /\ lines' = <<>>
    /\ UNCHANGED <<simVars, pc, ret, pending, numOfGens, lastCall, directSteps,
                   args, resultFile, verdict>>

\* Lines 212-216: the default, and game = GameOfLife(liveCells, numOfGens).
CmdConstruct ==
    /\ cmdPc = "construct"
    /\ numOfGens' = Defaulted(args.numberOfGens)
    /\ IF InitRejects(numOfGens')
       THEN /\ cmdPc' = "aborted"
            /\ error' = "ConfigError"
            /\ pc' = [pc EXCEPT ![1] = "raised"]
            /\ UNCHANGED <<setObj, simVars>>
       ELSE /\ NewFields(1, numOfGens')
            /\ cmdPc' = "runGenerations"
            /\ pc' = [pc EXCEPT ![1] = "idle"]
            /\ UNCHANGED error
    /\ UNCHANGED <<isNextGenAlive, ret, pending, pattern, lastCall, directSteps,
                   args, lines, resultFile, verdict>>

\* Line 217: game.runGenerations().
CmdRunGenerations ==
    /\ cmdPc = "runGenerations"
    /\ pc[1] = "idle"
    /\ pc' = [pc EXCEPT ![1] = "runGenerations"]
    /\ lastCall' = "runGenerations"
    /\ cmdPc' = "writeLiveCellResultFile"
    /\ UNCHANGED <<setObj, isNextGenAlive, simVars, ret, pending, pattern, numOfGens,
                   directSteps, args, lines, resultFile, verdict, error>>

\* Line 220, once runGenerations has returned: writeLiveCellResultFile.
CmdWriteResult ==
    /\ cmdPc = "writeLiveCellResultFile"
    /\ pc[1] = "idle"
    /\ \E order \in Orders(Live(1)) : resultFile' = <<GameOfLife__str__(order)>>
    /\ cmdPc' = IF args.solutionFilename = <<>> THEN "done" ELSE "readSolution"
    /\ UNCHANGED <<setObj, isNextGenAlive, simVars, pc, ret, pending, callerVars,
                   args, lines, verdict, error>>

\* The text of the file that args.solutionFilename names: the result file
\* just written, or a file that is no Life 1.06 file.
NotLifeText == <<"#", "L", "i", "f", "e", " ", "1", ".", "0", "5", "\n", "0", " ", "0", "\n">>

SolutionText(name) == IF name = "result" THEN resultFile[1] ELSE NotLifeText

\* Lines 224-229: the solution file is read and compared.
CmdReadSolution ==
    /\ cmdPc = "readSolution"
    /\ LET r == readLiveCellFile(SolutionRef,
                                 ReadLines(SolutionText(args.solutionFilename[1])))
       IN  IF r.error # "none"
           THEN /\ cmdPc' = "aborted"
                /\ error' = r.error
                /\ UNCHANGED <<setObj, isNextGenAlive, verdict>>
           ELSE /\ cmdPc' = "done"
                /\ setObj' = setObj @@ (SolutionRef :> r.cells)
                /\ isNextGenAlive' = isNextGenAlive @@ [c \in r.cells |-> "None"]
                /\ verdict' = IF SetEq(r.cells, Live(1)) THEN "Passed" ELSE "Failed"
                /\ UNCHANGED error
    /\ UNCHANGED <<simVars, pc, ret, pending, callerVars, args, lines, resultFile>>

\* ------------------------------------------------------------ initial sets
\* The cells of the 3x3 neighborhood of point a that are in range.
Moore(a) ==
    {a} \cup {<<a[1] + directions[i][1], a[2] + directions[i][2]>> :
                i \in {j \in 1..Len(directions) :
                         InRange(a[1] + directions[j][1], a[2] + directions[j][2])}}

\* Neighborhoods in the interior and at the corners of the coordinate range.
Anchors == {<<1, 0>>, <<INT64_MAX, INT64_MAX>>, <<INT64_MIN, INT64_MIN>>,
            <<INT64_MIN, INT64_MAX>>}

\* The patterns of section 8 of the specification, and a T tetromino, whose
\* second generation has overcrowded cells.
Block == {<<0, 0>>, <<1, 0>>, <<0, 1>>, <<1, 1>>}
Blinker == {<<0, 0>>, <<1, 0>>, <<2, 0>>}
BlinkerTurned == {<<1, -1>>, <<1, 0>>, <<1, 1>>}
TTetromino == {<<0, 0>>, <<1, 0>>, <<2, 0>>, <<1, -1>>}

\* Every pattern of at most MaxLive cells inside one of the neighborhoods, and
\* the named patterns.
InitialPatterns ==
    {cells \in UNION {SUBSET Moore(a) : a \in Anchors} : Cardinality(cells) <= MaxLive}
        \cup {Block, Blinker, TTetromino}

\* The patterns two instances are run on together.
Diagonal == {<<0, -1>>, <<1, 0>>, <<2, 1>>}
TwoPatterns == (SUBSET Diagonal) \cup (SUBSET Blinker) \cup {Block}

\* The caller has built its set of Cells (all markers unset) and is about to
\* construct the instances named in games with the same set.
InitWith(games, patterns) ==
    /\ pattern \in patterns
    /\ setObj = (CallerRef :> {Cell(0, p) : p \in pattern})
    /\ isNextGenAlive = [c \in {Cell(0, p) : p \in pattern} |-> "None"]
    /\ numOfGens \in -1..MaxGen
    /\ liveCells = NoFields
    /\ deadCellNeighborCounts = NoFields
    /\ numOfGenerations = NoFields
    /\ currentGeneration = NoFields
    /\ pc = [g \in games |-> "new"]
    /\ ret = [g \in games |-> "idle"]
    /\ pending = [g \in games |-> {}]
    /\ lastCall = "none"
    /\ directSteps = 0
    /\ cmdPc = "api"
    /\ args = [numberOfGens |-> <<>>, solutionFilename |-> <<>>]
    /\ lines = <<>>
    /\ resultFile = <<>>
    /\ verdict = "none"
    /\ error = "none"

Init == InitWith({1}, InitialPatterns)

Next ==
    \/ \E g \in DOMAIN pc : GameOfLife__init__(g)
    \/ \E g \in DOMAIN pc : CallRunGenerations(g)
    \/ \E g \in DOMAIN pc : CallRunNextGeneration(g)
    \/ \E g \in DOMAIN pc : runGenerations(g)
    \/ \E g \in DOMAIN pc : calculateNextGen(g)
    \/ \E g \in DOMAIN pc : removeDeadCells(g)
    \/ \E g \in DOMAIN pc : createNewCells(g)
    \/ \E g \in DOMAIN pc : resetNextGen(g)

Spec == Init /\ [][Next]_vars

\* ------------------------------------------------- the command's inputs
\* An L of three cells in the corner (INT64_MIN, INT64_MAX): its next
\* generation is a block, a still life.
CornerL == {<<INT64_MIN, INT64_MAX>>, <<INT64_MIN + 1, INT64_MAX>>,
            <<INT64_MIN, INT64_MAX - 1>>}

\* A blinker across the origin.
OriginLine == {<<-1, 0>>, <<0, 0>>, <<1, 0>>}

\* The lines of the input file that name the cells of CornerL and OriginLine.
ValidLines ==
    {Str(p[1]) \o <<" ">> \o Str(p[2]) \o <<"\n">> : p \in CornerL \cup OriginLine}

\* An empty line, a line of one token, a line that names no integer, a line
\* with two spaces, a coordinate out of range, a line without its newline.
DefectLines ==
    { <<"\n">>,
      <<"7", "\n">>,
      <<"x", " ", "0", "\n">>,
      <<"1", " ", " ", "0", "\n">>,
      Str(INT64_MAX + 1) \o <<" ", "0", "\n">>,
      Str(INT64_MIN) \o <<" ">> \o Str(INT64_MAX) }

\* The sequences of at most n lines with at most one defect line.
RECURSIVE Bodies(_, _)
Bodies(n, defects) ==
    IF n = 0
    THEN {<<>>}
    ELSE {<<>>}
           \cup {<<l>> \o rest : l \in ValidLines, rest \in Bodies(n - 1, defects)}
           \cup IF defects = 0
                THEN {}
                ELSE {<<l>> \o rest : l \in DefectLines, rest \in Bodies(n - 1, defects - 1)}

RECURSIVE Concat(_)
Concat(seqs) == IF seqs = <<>> THEN <<>> ELSE Head(seqs) \o Concat(Tail(seqs))

\* The input files: the header and a body; a header with blanks around it;
\* a wrong header; an empty file.
InputTexts ==
    {headerLine \o <<"\n">> \o Concat(body) : body \in Bodies(MaxLines, 1)}
        \cup {<<" ">> \o headerLine \o <<" ", "\n">> \o Concat(body) : body \in Bodies(1, 0)}
        \cup {NotLifeText, <<>>}

GenArgs == {<<>>} \cup {<<n>> : n \in -1..MaxGen}

\* runGameOfLife is started with -f, with or without -n and -s, and
\* readLiveCellFile has read the lines of the input file (line 168).
CmdInitWith(texts, solutions) ==
    /\ \E text \in texts : lines = ReadLines(text)
    /\ args \in [numberOfGens : GenArgs, solutionFilename : solutions]
    /\ cmdPc = "readLiveCellFile"
    /\ resultFile = <<>>
    /\ verdict = "none"
    /\ error = "none"
    /\ pattern = {}
    /\ setObj = [r \in {} |-> {}]
    /\ isNextGenAlive = [c \in {} |-> "None"]
    /\ numOfGens = 0
    /\ liveCells = NoFields
    /\ deadCellNeighborCounts = NoFields
    /\ numOfGenerations = NoFields
    /\ currentGeneration = NoFields
    /\ pc = (1 :> "new")
    /\ ret = (1 :> "idle")
    /\ pending = (1 :> {})
    /\ lastCall = "none"
    /\ directSteps = 0

CmdInit == CmdInitWith(InputTexts, {<<>>, <<"result">>, <<"other">>})

CmdNext ==
    \/ CmdReadInput
    \/ CmdConstruct
    \/ CmdRunGenerations
    \/ CmdWriteResult
    \/ CmdReadSolution
    \/ \E g \in DOMAIN pc : runGenerations(g)
    \/ \E g \in DOMAIN pc : calculateNextGen(g)
    \/ \E g \in DOMAIN pc : removeDeadCells(g)
    \/ \E g \in DOMAIN pc : createNewCells(g)
    \/ \E g \in DOMAIN pc : resetNextGen(g)

CmdSpec == CmdInit /\ [][CmdNext]_vars

\* The statements of instance g run once they are called; the caller need not
\* call anything.
Run(g) ==
    \/ runGenerations(g)
    \/ calculateNextGen(g)
    \/ removeDeadCells(g)
    \/ createNewCells(g)
    \/ resetNextGen(g)

\* Termination is checked from the empty set and the named patterns.
LiveInit == InitWith({1}, {{}, Block, Blinker, TTetromino})

LiveSpec == LiveInit /\ [][Next]_vars /\ WF_vars(Run(1))

\* Two instances constructed from the same set of Cells; their statements
\* interleave.
TwoInit == InitWith({1, 2}, TwoPatterns)

TwoSpec == TwoInit /\ [][Next]_vars

\* ------------------------------------------------- Conway's rule, as stated
Grid == (INT64_MIN..INT64_MAX) \X (INT64_MIN..INT64_MAX)

Adjacent(c, q) ==
    /\ c # q
    /\ c[1] - q[1] \in {-1, 0, 1}
    /\ c[2] - q[2] \in {-1, 0, 1}

NeighborsIn(L, c) == Cardinality({q \in L : Adjacent(c, q)})

\* The cells of the grid next to a cell of L: no other dead cell has a live
\* neighbor.
Near(L) == {d \in {<<c[1] + dx, c[2] + dy>> : c \in L, dx \in {-1, 0, 1}, dy \in {-1, 0, 1}} :
              d \in Grid}

Conway(L) ==
    {c : c \in {d \in L : NeighborsIn(L, d) \in {2, 3}}}
        \cup {c : c \in {d \in Near(L) \ L : NeighborsIn(L, d) = 3}}

RECURSIVE Generation(_, _)
Generation(L, n) ==
    IF n = 0 THEN L ELSE UNION {Conway(prev) : prev \in {Generation(L, n - 1)}}

Constructed == DOMAIN liveCells

\* Instance g is between two generations.
AtBoundary(g) == g \in Constructed /\ pc[g] \in {"idle", "runGenerations"}

\* -------------------------------------------------------------------- C1
\* C1: one step applies Conway's rule with all neighbor counts taken against
\* the LiveSet as it was before the step: after k completed steps the LiveSet
\* is the k-th Conway generation of the caller's pattern.
C1_StepIsConway ==
    \A g \in DOMAIN pc :
        AtBoundary(g) =>
            Points(Live(g)) = Generation(pattern, currentGeneration[g])

\* A second generation in which a cell has died of overcrowding, cells have
\* survived and cells have been born.
C1_Witness ==
    /\ AtBoundary(1)
    /\ pattern = TTetromino
    /\ currentGeneration[1] = 2
    /\ <<1, 0>> \notin Points(Live(1))
    /\ NeighborsIn(Conway(pattern), <<1, 0>>) > 3
    /\ Points(Live(1)) \ Conway(pattern) # {}
    /\ Points(Live(1)) \cap Conway(pattern) # {}

\* -------------------------------------------------------------------- C2
\* C2: runGenerations on a simulator constructed with n >= 0 generations
\* terminates, and returns with currentGeneration = n when the caller has made
\* no step of its own; every step advances currentGeneration by exactly 1 and
\* nothing else changes it.
C2_StepAdvancesByOne ==
    \A g \in DOMAIN currentGeneration :
        \/ currentGeneration'[g] = currentGeneration[g]
        \/ pc[g] = "resetNextGen" /\ pc'[g] = ret[g]
             /\ currentGeneration'[g] = currentGeneration[g] + 1

C2_RunAllTerminatesDone ==
    /\ [][C2_StepAdvancesByOne]_vars
    /\ [](1 \in DOMAIN pc /\ pc[1] = "idle" /\ lastCall = "runGenerations"
            /\ directSteps = 0
          => currentGeneration[1] = numOfGenerations[1])
    /\ (pc[1] = "runGenerations") ~> (pc[1] = "idle")

\* runGenerations has returned after two generations.
C2_Witness ==
    /\ pc[1] = "idle"
    /\ lastCall = "runGenerations"
    /\ directSteps = 0
    /\ 1 \in Constructed
    /\ numOfGenerations[1] = 2
    /\ currentGeneration[1] = 2
    /\ pattern = Blinker

\* -------------------------------------------------------------------- C3
\* C3: the simulator is always Running or Done: 0 <= currentGeneration <=
\* numOfGenerations, whatever sequence of runNextGeneration and runGenerations
\* calls the caller makes.
C3_RunningOrDone ==
    \A g \in Constructed :
        0 <= currentGeneration[g] /\ currentGeneration[g] <= numOfGenerations[g]

\* -------------------------------------------------------------------- C4
\* C4: a step never fails, and every coordinate in the LiveSet and in the
\* NeighborTally lies within [INT64_MIN, INT64_MAX].
C4_BoundaryExclusion ==
    \A g \in Constructed :
        /\ pc[g] # "raised"
        /\ \A p \in Points(Live(g)) \cup DOMAIN deadCellNeighborCounts[g] :
             /\ INT64_MIN <= p[1] /\ p[1] <= INT64_MAX
             /\ INT64_MIN <= p[2] /\ p[2] <= INT64_MAX

\* The Evaluate phase has visited live cells at both extreme corners' edges:
\* a cell at (INT64_MAX, INT64_MAX) has been tallied around.
C4_Witness ==
    /\ 1 \in Constructed
    /\ pc[1] = "removeDeadCells"
    /\ <<INT64_MAX, INT64_MAX>> \in Points(Live(1))
    /\ <<INT64_MAX - 1, INT64_MAX>> \in DOMAIN deadCellNeighborCounts[1]

\* -------------------------------------------------------------------- C5
\* C5: no mutable state is shared between instances constructed from the same
\* set: no instance changes the membership or a transition marker of the
\* caller's set, and under every interleaving each instance's LiveSet is what
\* it is when run alone, the Conway generation of the pattern.
C5_SameAsAlone ==
    \A g \in DOMAIN pc :
        AtBoundary(g) =>
            Points(Live(g)) = Generation(pattern, currentGeneration[g])

C5_NoSharedState ==
    /\ Points(setObj[CallerRef]) = pattern
    /\ \A c \in setObj[CallerRef] : isNextGenAlive[c] = "None"
    /\ C5_SameAsAlone

\* -------------------------------------------------------------------- C6
\* C6: whenever a run of the command has aborted with a fatal error, reading
\* the input file, constructing the simulator or reading the solution file,
\* that run has written no result file.
C6_NoResultFileOnError == cmdPc = "aborted" => resultFile = <<>>

\* -------------------------------------------------------------------- C7
\* C7: a simulator constructed with generation count 0 is Done at once, and
\* runGenerations leaves its LiveSet equal to the input set.
C7_GenerationZeroIdentity ==
    \A g \in Constructed :
        numOfGenerations[g] = 0 /\ directSteps = 0 =>
            /\ AtBoundary(g)
            /\ currentGeneration[g] = numOfGenerations[g]
            /\ Points(Live(g)) = pattern

\* runGenerations has returned on a simulator of 0 generations whose pattern
\* is no still life.
C7_Witness ==
    /\ 1 \in Constructed
    /\ numOfGenerations[1] = 0
    /\ lastCall = "runGenerations"
    /\ pc[1] = "idle"
    /\ pattern = Blinker

\* -------------------------------------------------------------------- C8
\* C8: starting from the 2x2 block, the LiveSet is that block after every step.
C8_BlockIsStill ==
    \A g \in DOMAIN pc :
        AtBoundary(g) /\ pattern = Block => Points(Live(g)) = Block

\* Three steps have been made on the block.
C8_Witness ==
    /\ AtBoundary(1)
    /\ pattern = Block
    /\ currentGeneration[1] = 3

\* -------------------------------------------------------------------- C9
\* C9: starting from the blinker, the LiveSet after an odd number of steps is
\* {(1,-1),(1,0),(1,1)} and after an even number the original row.
C9_BlinkerOscillates ==
    \A g \in DOMAIN pc :
        AtBoundary(g) /\ pattern = Blinker =>
            Points(Live(g)) =
                IF currentGeneration[g] % 2 = 1 THEN BlinkerTurned ELSE Blinker

\* The blinker is back after two steps.
C9_Witness ==
    /\ AtBoundary(1)
    /\ pattern = Blinker
    /\ currentGeneration[1] = 2
    /\ Points(Live(1)) = Blinker

\* ------------------------------------------------------------------- C10
\* C10: the text __str__ writes for a LiveSet, in whatever order it iterates,
\* is read back by readLiveCellFile without error as a set equal to the
\* LiveSet (the run that names its own result file as solution passes).
C10_RoundTrip ==
    cmdPc \in {"done", "aborted"} /\ args.solutionFilename = <<"result">>
        /\ resultFile # <<>>
    => /\ cmdPc = "done"
       /\ Points(setObj[SolutionRef]) = Points(Live(1))
       /\ SetEq(setObj[SolutionRef], Live(1))
       /\ verdict = "Passed"

\* The block in the corner, with negative and two-digit coordinates, has been
\* written and read back.
C10_Witness ==
    /\ cmdPc = "done"
    /\ args.solutionFilename = <<"result">>
    /\ Points(Live(1)) = Conway(CornerL)
    /\ Cardinality(Live(1)) = 4
    /\ verdict = "Passed"

\* A blinker across the origin, with the coordinates -1, 0 and 1, has been
\* written and read back.
C10_WitnessOrigin ==
    /\ cmdPc = "done"
    /\ args.solutionFilename = <<"result">>
    /\ Points(Live(1)) = Conway(OriginLine)
    /\ Cardinality(Live(1)) = 3
    /\ verdict = "Passed"

\* The empty LiveSet has been written and read back.
C10_WitnessEmpty ==
    /\ cmdPc = "done"
    /\ args.solutionFilename = <<"result">>
    /\ Live(1) = {}
    /\ resultFile = <<headerLine \o <<"\n">> >>
    /\ verdict = "Passed"

\* ------------------------------------------------------------------- C11
\* The Life 1.06 format, as stated: a line is empty, or is <x> <y> with two
\* in-range integers in decimal and one space between them.
Coordinates == INT64_MIN..INT64_MAX

Unended(line) ==
    IF line # <<>> /\ line[Len(line)] = "\n" THEN SubSeq(line, 1, Len(line) - 1) ELSE line

IsEmptyLine(line) == Unended(line) = <<>>

StartsWith(s, front) == Len(front) <= Len(s) /\ SubSeq(s, 1, Len(front)) = front

\* The pair of integers of the given range that a line names: none or one.
NamedIn(line, range) ==
    LET body == Unended(line)
        xs == {a \in range : StartsWith(body, Str(a) \o <<" ">>)}
    IN  UNION {{<<x, y>> : y \in {b \in range : body = Str(x) \o <<" ">> \o Str(b)}} :
                 x \in xs}

NamedBy(line) == NamedIn(line, Coordinates)

WellFormedFile(fileLines) ==
    /\ fileLines # <<>>
    /\ Unended(fileLines[1]) = headerLine
    /\ \A i \in 2..Len(fileLines) : IsEmptyLine(fileLines[i]) \/ NamedBy(fileLines[i]) # {}

NamedCoordinates(fileLines) == UNION {NamedBy(fileLines[i]) : i \in 2..Len(fileLines)}

\* C11: reading a file with a valid header whose later lines are empty or
\* name an in-range coordinate raises no error and returns exactly one cell
\* for each coordinate the non-empty lines name.
C11_ReadsNamedCoordinates ==
    [][CmdReadInput /\ WellFormedFile(lines)
         => /\ cmdPc' = "construct"
            /\ Points(setObj'[CallerRef]) = NamedCoordinates(lines)
            /\ Cardinality(setObj'[CallerRef]) = Cardinality(NamedCoordinates(lines))]_vars

\* ------------------------------------------------------------------- C12
\* Coordinates at and just beyond the ends of the range.
Edge == {INT64_MIN - 1, INT64_MIN, INT64_MAX, INT64_MAX + 1}

EdgeLines == {Str(x) \o <<" ">> \o Str(y) \o <<"\n">> : x \in Edge, y \in Edge}

RECURSIVE EdgeBodies(_)
EdgeBodies(n) ==
    IF n = 0
    THEN {<<>>}
    ELSE {<<>>} \cup {<<l>> \o rest : l \in EdgeLines, rest \in EdgeBodies(n - 1)}

\* Input files whose lines each name a pair of integers, in range or not.
EdgeTexts == {headerLine \o <<"\n">> \o Concat(body) : body \in EdgeBodies(MaxLines - 1)}

RangeInit == CmdInitWith(EdgeTexts, {<<>>, <<"result">>})

RangeSpec == RangeInit /\ [][CmdNext]_vars

Wide == (INT64_MIN - 1)..(INT64_MAX + 1)

\* C12: Point(x, y) fails exactly when x or y is outside [INT64_MIN, INT64_MAX]:
\* reading lines that each name a pair of integers aborts with RangeError
\* exactly when a pair has a coordinate out of range, and otherwise every
\* pair, the extreme values included, has become the point of a cell.
C12_PointValidation ==
    [][CmdReadInput /\ (\A i \in 2..Len(lines) : NamedIn(lines[i], Wide) # {})
         => LET named == UNION {NamedIn(lines[i], Wide) : i \in 2..Len(lines)}
            IN  /\ error' = "RangeError" <=> ~(named \subseteq Grid)
                /\ cmdPc' = "aborted" <=> ~(named \subseteq Grid)
                /\ named \subseteq Grid => pattern' = named]_vars

\* Points with the extreme values of both coordinates have been constructed.
C12_Witness ==
    /\ cmdPc = "construct"
    /\ {<<INT64_MIN, INT64_MAX>>, <<INT64_MAX, INT64_MIN>>} \subseteq pattern
    /\ error = "none"

\* A Point just below the range has been refused.
C12_WitnessRefused ==
    /\ cmdPc = "aborted"
    /\ error = "RangeError"
    /\ pattern = {}

\* ------------------------------------------------------------------- C13
\* C13: constructing a GameOfLife fails exactly when the generation count is
\* negative, and then no instance exists; for every count >= 0 the new
\* instance has currentGeneration 0, an empty tally, the given count, and a
\* LiveSet equal to the input set.
C13_SimulatorValidation ==
    [][\A g \in DOMAIN pc :
          GameOfLife__init__(g) =>
             IF numOfGens < 0
             THEN pc'[g] = "raised" /\ g \notin DOMAIN liveCells'
             ELSE /\ pc'[g] = "idle"
                  /\ currentGeneration'[g] = 0
                  /\ deadCellNeighborCounts'[g] = EmptyTally
                  /\ numOfGenerations'[g] = numOfGens
                  /\ Points(setObj'[liveCells'[g]]) = pattern
                  /\ SetEq(setObj'[liveCells'[g]], setObj[CallerRef])]_vars

\* An instance has just been constructed with count 0 from a set that is
\* not empty.
C13_Witness ==
    /\ pc[1] = "idle"
    /\ lastCall = "none"
    /\ numOfGens = 0
    /\ currentGeneration[1] = 0
    /\ Cardinality(Live(1)) = MaxLive

\* The construction with count -1 has failed.
C13_WitnessRejected ==
    /\ pc[1] = "raised"
    /\ numOfGens = -1
    /\ liveCells = NoFields

\* ------------------------------------------------------------------- C14
\* Two runs, one after the other: a call is made on an instance only while
\* no other instance is inside a call.
Resting(g) == pc[g] \in {"new", "idle", "raised"}

OthersRest(g) == \A h \in DOMAIN pc \ {g} : Resting(h)

SeqNext ==
    \/ \E g \in DOMAIN pc : GameOfLife__init__(g)
    \/ \E g \in DOMAIN pc : OthersRest(g) /\ CallRunGenerations(g)
    \/ \E g \in DOMAIN pc : OthersRest(g) /\ CallRunNextGeneration(g)
    \/ \E g \in DOMAIN pc : runGenerations(g)
    \/ \E g \in DOMAIN pc : calculateNextGen(g)
    \/ \E g \in DOMAIN pc : removeDeadCells(g)
    \/ \E g \in DOMAIN pc : createNewCells(g)
    \/ \E g \in DOMAIN pc : resetNextGen(g)

SeqSpec == TwoInit /\ [][SeqNext]_vars

\* C14: two runs from equal input sets that have completed the same number
\* of generations hold equal LiveSets, in whatever order each run visited
\* its cells.
C14_Determinism ==
    \A g, h \in Constructed :
        AtBoundary(g) /\ AtBoundary(h) /\ currentGeneration[g] = currentGeneration[h]
            => /\ SetEq(Live(g), Live(h))
               /\ Points(Live(g)) = Points(Live(h))

\* Both runs of a pattern whose cells die in the first generation, all but
\* one, have finished MaxGen generations.
C14_Witness ==
    /\ Constructed = {1, 2}
    /\ pattern = Diagonal
    /\ pc[1] = "idle" /\ pc[2] = "idle"
    /\ currentGeneration[1] = MaxGen /\ currentGeneration[2] = MaxGen
    /\ lastCall = "runGenerations"

\* ------------------------------------------------------------------- C15
\* C15: when calculateNextGen has visited every live cell, the keys of the
\* tally are exactly the in-range coordinates outside the LiveSet with a live
\* neighbor, each with its number of live neighbors, a number in 1..8; no
\* live coordinate is a key and there are at most 8 keys per live cell.
C15_TallyAfterEvaluate ==
    \A g \in Constructed :
        pc[g] = "removeDeadCells" =>
            LET L == Points(Live(g))
                tally == deadCellNeighborCounts[g]
            IN  /\ DOMAIN tally = {d \in Near(L) \ L : NeighborsIn(L, d) >= 1}
                /\ \A d \in DOMAIN tally : tally[d] = NeighborsIn(L, d) /\ tally[d] \in 1..8
                /\ DOMAIN tally \cap L = {}
                /\ Cardinality(DOMAIN tally) <= 8 * Cardinality(L)

\* The blinker has been evaluated in its second generation: twelve keys, two
\* of them with three live neighbors.
C15_Witness ==
    /\ pc[1] = "removeDeadCells"
    /\ pattern = Blinker
    /\ currentGeneration[1] = 1
    /\ Cardinality(DOMAIN deadCellNeighborCounts[1]) = 12
    /\ Cardinality({d \in DOMAIN deadCellNeighborCounts[1] :
                      deadCellNeighborCounts[1][d] = 3}) = 2

\* A cell in the corner of the range has been evaluated: its neighbors out
\* of range are no keys.
C15_WitnessCorner ==
    /\ pc[1] = "removeDeadCells"
    /\ pattern = {<<INT64_MAX, INT64_MAX>>}
    /\ Cardinality(DOMAIN deadCellNeighborCounts[1]) = 3

\* ------------------------------------------------------------------- C16
\* C16: between generations, after construction and after each completed
\* step, the tally is empty and every Cell of the LiveSet, survivor or newly
\* born, has its marker unset.
C16_CleanAtBoundary ==
    \A g \in Constructed :
        AtBoundary(g) =>
            /\ deadCellNeighborCounts[g] = EmptyTally
            /\ \A c \in Live(g) : isNextGenAlive[c] = "None"

\* A step has been completed that left a surviving Cell of the caller and a
\* Cell born in the step in the LiveSet.
C16_Witness ==
    /\ 1 \in Constructed
    /\ pc[1] = "idle"
    /\ currentGeneration[1] >= 1
    /\ \E c \in Live(1) : c.owner = CallerRef
    /\ \E c \in Live(1) : c.owner = 1

\* ------------------------------------------------------------------- C17
\* The LiveSet after createNewCells and then removeDeadCells, from the state
\* calculateNextGen has left.
BirthThenRemove(g) ==
    LET born == NewCells(g, Live(g), deadCellNeighborCounts[g])
        grown == Live(g) \cup born
        marks == [c \in born |-> BornMarker] @@ isNextGenAlive
    IN  SetMinus(grown, DeadCells(grown, marks))

\* C17: removeDeadCells and createNewCells commute: when removeDeadCells
\* runs, the LiveSet that createNewCells makes of its result is the LiveSet
\* the two phases make in the other order; the removed coordinates were live
\* and the born coordinates were dead before the step.
C17_RemoveAndBirthCommute ==
    [][\A g \in DOMAIN pc :
          removeDeadCells(g) =>
             LET kept == setObj'[liveCells[g]]
                 born == NewCells(g, kept, deadCellNeighborCounts[g])
             IN  /\ kept \cup born = BirthThenRemove(g)
                 /\ Points(Live(g) \ kept) \subseteq Points(Live(g))
                 /\ Points(born) \cap Points(Live(g)) = {}
                 /\ Points(born) = Points(NewCells(g, Live(g), deadCellNeighborCounts[g]))]_vars

\* removeDeadCells has removed the two ends of the blinker and two cells are
\* about to be born.
C17_Witness ==
    /\ pc[1] = "createNewCells"
    /\ pattern = Blinker
    /\ currentGeneration[1] = 0
    /\ Cardinality(Live(1)) = 1
    /\ Cardinality(NewCells(1, Live(1), deadCellNeighborCounts[1])) = 2

\* ------------------------------------------------------------------- C18
\* C18: the set object the caller passed to the constructor keeps its
\* elements: whatever steps the instances built from it take, it holds the
\* Cells of the pattern and no others.
C18_CallerSetUntouched ==
    /\ setObj[CallerRef] = {Cell(CallerRef, p) : p \in pattern}
    /\ \A g \in Constructed : liveCells[g] # CallerRef

\* An instance has turned the blinker while the caller's set still holds the
\* row.
C18_Witness ==
    /\ 1 \in Constructed
    /\ pc[1] = "idle"
    /\ currentGeneration[1] = 1
    /\ pattern = Blinker
    /\ Points(Live(1)) = BlinkerTurned
    /\ Points(setObj[CallerRef]) = Blinker

\* ------------------------------------------------------------------- C19
\* The membership test for a Point when the comparison is dispatched on the
\* Point instead of the stored Cell.
ContainsPointByPoint(cells, p) == \E c \in cells : PointEqCell(p, c)

\* C19: for every Cell c of a LiveSet and every Point p at or next to a live
\* coordinate, c == p and p == c give the same answer, true exactly when the
\* coordinates match; equal objects have equal hashes; and the membership of
\* p in the LiveSet is the same whichever operand the comparison is
\* dispatched on.
C19_EqualitySymmetric ==
    \A g \in Constructed :
        \A c \in Live(g) :
            \A p \in Near(Points(Live(g))) :
                /\ CellEqPoint(c, p) = (c.point = p)
                /\ CellEqPoint(c, p) => CellHash(c) = PointHash(p)
                /\ PointEqCell(p, c) = CellEqPoint(c, p)
                /\ ContainsPointByPoint(Live(g), p) = ContainsPoint(Live(g), p)


====
